---- MODULE Spec2Model ----
(***************************************************************************)
(* deskhelp: the per-channel conversation memory (ai_context), the token   *)
(* window selection and the streaming renderer of oai::process_message,    *)
(* together with the wack command of main.rs.                              *)
(*                                                                         *)
(* One request is one run of process_message.  Its actions are the code    *)
(* between two suspension points (.await) or lock operations.  Discord     *)
(* messages ("sinks"), the backend stream and the clock are environment.   *)
(***************************************************************************)
EXTENDS Integers, Sequences, FiniteSets, TLC

(* ------------------------------ bounds -------------------------------- *)
\* chunks one backend stream delivers at most
MaxChunks == 3
\* clock ticks the model lets pass
MaxTime == 4
\* clock ticks per second (the clock's resolution)
TicksPerSec == 2
\* chunks a stream delivers at most when two requests are interleaved
ConcChunks == 2
\* runs of the wack command
MaxWacks == 1
\* chunks a stream delivers at most in the runs checked for termination
LiveChunks == 1
\* turns of a history drawn as a starting point of the selection
MaxHist == 3
\* largest AI_TOKEN_LIMIT drawn
MaxBudget == 6
\* largest token count of the system message drawn
MaxSysTok == 3
\* width of usize in the model (64 on the real targets)
UsizeBits == 5
\* context size the tokenizer library assumes for "o1-mini", scaled down
LibCtx == 4

(* ------------------------- identifiers, inputs ------------------------ *)
Reqs == {"r1", "r2"}
Chans == {"c1", "c2"}
Chars == {"a", "b"}
Builds == {"debug", "release"}

\* texts a chunk's delta.content may carry (Some("") included)
FragTexts == {<<>>} \cup {<<c>> : c \in Chars}
\* contents of a Discord message the user sent
UserTexts == {<<>>, <<"a">>, <<"a", "a">>}

VARIABLES
    cfg,                \* AI_TOKEN_LIMIT, AI_CONTEXT_WINDOW, build profile
    now,                \* the clock (Instant::now), in ticks
    mutex,              \* owner of the ai_context Mutex, "free" when unlocked
    ai_context,         \* channel id -> history (a HashMap: partial)
    wacks,              \* runs of wack so far
    wack_chan,          \* channel of the wack run holding the mutex
    pc,                 \* request -> position in process_message
    msg,                \* request -> the inbound Discord message
    sinks,              \* request -> Discord messages it opened, in order
    messages,           \* request -> snapshot of the history (line 270)
    sys_msg,            \* request -> the system message it built
    final_messages,     \* request -> the submission list
    stream,             \* request -> state of the backend stream
    delivered,          \* request -> chunks the backend delivered so far
    response,           \* request -> text of the current Discord message
    total_response,     \* request -> text since the stream started
    since_last_update,  \* request -> text since the last flush
    last_update,        \* request -> time of the last flush
    stream_begin,       \* request -> time the stream was created
    flushes,            \* request -> flush attempts made so far
    edits               \* request -> edit calls made that carried response text

vars == <<cfg, now, mutex, ai_context, wacks, wack_chan, pc, msg, sinks,
          messages, sys_msg, final_messages, stream, delivered, response,
          total_response, since_last_update, last_update, stream_begin,
          flushes, edits>>

(* ----------------------------- sequences ------------------------------ *)
RECURSIVE Reverse(_)
Reverse(s) == IF s = <<>> THEN <<>> ELSE Append(Reverse(Tail(s)), Head(s))

RECURSIVE Flatten(_)
Flatten(ss) == IF ss = <<>> THEN <<>> ELSE Head(ss) \o Flatten(Tail(ss))

SeqsUpTo(S, n) == UNION {[1..k -> S] : k \in 0..n}

CeilDiv(a, b) == (a + b - 1) \div b

(* ------------------------------- turns -------------------------------- *)
Turn(role, src, content) == [role |-> role, src |-> src, content |-> content]

\* line 257: the user message of a request
UserTurn(r) == Turn("user", r, msg[r].content)

\* line 412: the assistant message a request commits
AssistantTurn(r, text) == Turn("assistant", r, text)

\* line 295: the system message; its length varies with time and server name
SysTurn(r, n) == Turn("system", r, [i \in 1..(n - 1) |-> "s"])

(* --------------------- token counting (lines 304-325) ----------------- *)
USIZE == 2 ^ UsizeBits
Panic == -1

\* tiktoken's count for one message: a fixed overhead plus the content
num_tokens(turn) == 1 + Len(turn.content)

\* "responds with the *remaining context length*" (line 304), saturating
get_chat_completion_max_tokens(turn) ==
    IF num_tokens(turn) > LibCtx THEN 0 ELSE LibCtx - num_tokens(turn)

\* usize subtraction: panics with overflow checks, wraps without
usize_sub(a, b, build) ==
    IF a >= b THEN a - b
    ELSE IF build = "debug" THEN Panic ELSE a - b + USIZE

\* usize addition: panics with overflow checks, wraps without
usize_add(a, b, build) ==
    IF a + b < USIZE THEN a + b
    ELSE IF build = "debug" THEN Panic ELSE a + b - USIZE

\* lines 309, 316: context_window - get_chat_completion_max_tokens(..)
msg_tokens(turn, c) ==
    usize_sub(c.context_window, get_chat_completion_max_tokens(turn), c.build)

\* the walk with `continue` in place of `break`: a turn that does not fit is
\* skipped and older turns are still tried
RECURSIVE WalkRev_continue(_, _, _, _, _)
WalkRev_continue(ms, i, current_tokens, acc, c) ==
    IF i = 0 THEN [panic |-> FALSE, list |-> acc]
    ELSE LET mt == msg_tokens(ms[i], c) IN
         IF mt = Panic THEN [panic |-> TRUE, list |-> <<>>]
         ELSE LET s == usize_add(current_tokens, mt, c.build) IN
              IF s = Panic THEN [panic |-> TRUE, list |-> <<>>]
              ELSE IF s > c.token_limit
                   THEN WalkRev_continue(ms, i - 1, current_tokens, acc, c)
                   ELSE WalkRev_continue(ms, i - 1, s, Append(acc, ms[i]), c)

\* lines 315-325: the walk over messages.iter().rev(); acc is final_messages
RECURSIVE WalkRev(_, _, _, _, _)
WalkRev(ms, i, current_tokens, acc, c) ==
    IF i = 0 THEN [panic |-> FALSE, list |-> acc]
    ELSE LET mt == msg_tokens(ms[i], c) IN
         IF mt = Panic THEN [panic |-> TRUE, list |-> <<>>]
         ELSE LET s == usize_add(current_tokens, mt, c.build) IN
              IF s = Panic THEN [panic |-> TRUE, list |-> <<>>]
              ELSE IF s > c.token_limit THEN [panic |-> FALSE, list |-> acc]
              ELSE WalkRev(ms, i - 1, s, Append(acc, ms[i]), c)

\* lines 303-329: the submission list, unless the arithmetic panics
BuildFinalMessages(ms, sys, c) ==
    LET sys_tokens == msg_tokens(sys, c) IN
    IF sys_tokens = Panic THEN [panic |-> TRUE, list |-> <<>>]
    ELSE LET w == WalkRev(ms, Len(ms), sys_tokens, <<>>, c) IN
         IF w.panic THEN w
         ELSE [panic |-> FALSE, list |-> Reverse(Append(w.list, sys))]

(* --------------------------- the history map -------------------------- *)
\* HashMap::entry(id).or_default(): the record is created when absent
Entry(ctx, c) ==
    IF c \in DOMAIN ctx THEN ctx
    ELSE [x \in (DOMAIN ctx) \cup {c} |-> IF x = c THEN <<>> ELSE ctx[x]]

\* the turn inserted at the front of the history instead of pushed
Push_front(ctx, c, turn) == [Entry(ctx, c) EXCEPT ![c] = <<turn>> \o @]

\* entry(id).or_default() followed by push(turn)
Push(ctx, c, turn) == [Entry(ctx, c) EXCEPT ![c] = Append(@, turn)]

\* the record created but its history left as it was
Cleared_kept(ctx, c) == Entry(ctx, c)

\* entry(id).or_default() followed by clear()
Cleared(ctx, c) == [Entry(ctx, c) EXCEPT ![c] = <<>>]

History(c) == IF c \in DOMAIN ai_context THEN ai_context[c] ELSE <<>>

(* ------------------------------- sinks -------------------------------- *)
\* a Discord message as the channel shows it
Placeholder(kind) == [kind |-> kind, text |-> <<>>, footer |-> FALSE]
Shown(text, footer) == [kind |-> "response", text |-> text, footer |-> footer]
ErrorShown == [kind |-> "error", text |-> <<>>, footer |-> FALSE]

\* sent_msg: the message the request edits
Active(r) == Len(sinks[r])

\* Message::edit on sent_msg, when Discord accepts it
EditActive(r, content) == [sinks EXCEPT ![r][Active(r)] = content]

\* msg.reply(..): a new message, which becomes sent_msg
OpenSink(r, kind) == [sinks EXCEPT ![r] = Append(@, Placeholder(kind))]

\* the response text the sinks of a request show, in opening order
RECURSIVE ShownText(_)
ShownText(ss) ==
    IF ss = <<>> THEN <<>>
    ELSE (IF Head(ss).kind = "response" THEN Head(ss).text ELSE <<>>)
         \o ShownText(Tail(ss))

(* ------------------------------ stream -------------------------------- *)
\* const UPDATE_INTERVAL = Duration::from_secs(1), in ticks
UPDATE_INTERVAL == 1 * TicksPerSec

\* a chunk: choices[0].delta.content and choices[0].finish_reason.is_some()
Chunk(some, text, finish) == [some |-> some, text |-> text, finish |-> finish]
Chunks(texts) ==
    {Chunk(FALSE, <<>>, f) : f \in BOOLEAN}
    \cup {Chunk(TRUE, t, f) : t \in texts, f \in BOOLEAN}

\* the chunk being processed
Current(r) == delivered[r][Len(delivered[r])]

\* what the backend sent so far, as one text
Received(r) == Flatten([i \in 1..Len(delivered[r]) |-> delivered[r][i].text])

\* the check of finish_reason left out: the loop reads on after a flush
AfterContent_loops(r) == "read"

\* line 386 onwards, or the next turn of the loop
AfterContent(r) == IF Current(r).finish THEN "final_edit" ELSE "read"

(* --------------------------- process_message -------------------------- *)
\* lines 246-254: the "Generating response..." reply; expect() on failure
StartRequest(r, chans, texts) ==
    /\ pc[r] = "idle"
    /\ \E c \in chans, t \in texts, ok \in BOOLEAN :
        /\ msg' = [msg EXCEPT ![r] = [channel_id |-> c, content |-> t]]
        /\ IF ok
           THEN /\ sinks' = OpenSink(r, "generating")
                /\ pc' = [pc EXCEPT ![r] = "append"]
           ELSE /\ sinks' = sinks
                /\ pc' = [pc EXCEPT ![r] = "panicked"]
    /\ UNCHANGED <<cfg, now, mutex, ai_context, wacks, wack_chan, messages,
                   sys_msg, final_messages, stream, delivered, response,
                   total_response, since_last_update, last_update,
                   stream_begin, flushes, edits>>

\* line 271: ai_context.lock().unwrap()
LockAppend(r) ==
    /\ pc[r] = "append"
    /\ mutex = "free"
    /\ mutex' = r
    /\ pc' = [pc EXCEPT ![r] = "append_locked"]
    /\ UNCHANGED <<cfg, now, ai_context, wacks, wack_chan, msg, sinks,
                   messages, sys_msg, final_messages, stream, delivered,
                   response, total_response, since_last_update, last_update,
                   stream_begin, flushes, edits>>

\* lines 272-340: push the user message, clone the history, drop the guard,
\* then build the submission list from the clone.  The unwrap() of line 280
\* and the expect() of lines 288, 307 and 318 panic: tokenizer_ok is FALSE
AppendUser(r, sys_toks) ==
    /\ pc[r] = "append_locked"
    /\ mutex = r
    /\ LET ctx == Push(ai_context, msg[r].channel_id, UserTurn(r))
           snapshot == ctx[msg[r].channel_id]
       IN /\ ai_context' = ctx
          /\ mutex' = "free"
          /\ messages' = [messages EXCEPT ![r] = snapshot]
          /\ \E n \in sys_toks, tokenizer_ok \in BOOLEAN :
               LET sys == SysTurn(r, n)
                   built == BuildFinalMessages(snapshot, sys, cfg)
               IN /\ sys_msg' = [sys_msg EXCEPT ![r] = sys]
                  /\ IF tokenizer_ok /\ ~built.panic
                     THEN /\ final_messages' =
                                [final_messages EXCEPT ![r] = built.list]
                          /\ pc' = [pc EXCEPT ![r] = "create_stream"]
                     ELSE /\ final_messages' = final_messages
                          /\ pc' = [pc EXCEPT ![r] = "panicked"]
    /\ UNCHANGED <<cfg, now, wacks, wack_chan, msg, sinks, stream, delivered,
                   response, total_response, since_last_update, last_update,
                   stream_begin, flushes, edits>>

\* lines 342-352: create_stream; expect() on failure; the buffers start empty
CreateStream(r) ==
    /\ pc[r] = "create_stream"
    /\ \E ok \in BOOLEAN :
        IF ok
        THEN /\ stream' = [stream EXCEPT ![r] = "open"]
             /\ last_update' = [last_update EXCEPT ![r] = now]
             /\ stream_begin' = [stream_begin EXCEPT ![r] = now]
             /\ pc' = [pc EXCEPT ![r] = "read"]
        ELSE /\ pc' = [pc EXCEPT ![r] = "panicked"]
             /\ UNCHANGED <<stream, last_update, stream_begin>>
    /\ UNCHANGED <<cfg, now, mutex, ai_context, wacks, wack_chan, msg, sinks,
                   messages, sys_msg, final_messages, delivered, response,
                   total_response, since_last_update, flushes, edits>>

\* a flush with every fragment, whatever the time
FlushDue_always(r) == TRUE

\* line 362: last_update.elapsed() >= UPDATE_INTERVAL
FlushDue(r) == now - last_update[r] >= UPDATE_INTERVAL

\* the assignment of line 363 forgotten: last_update stays at the stream start
NextChunk_stale(r, texts, max) ==
    /\ pc[r] = "read"
    /\ stream[r] = "open"
    /\ Len(delivered[r]) < max
    /\ \E ch \in Chunks(texts) :
        /\ delivered' = [delivered EXCEPT ![r] = Append(@, ch)]
        /\ stream' = [stream EXCEPT ![r] = IF ch.finish THEN "finished" ELSE @]
        /\ response' = [response EXCEPT ![r] = @ \o ch.text]
        /\ total_response' = [total_response EXCEPT ![r] = @ \o ch.text]
        /\ since_last_update' = [since_last_update EXCEPT ![r] = @ \o ch.text]
        /\ last_update' = last_update
        /\ pc' = [pc EXCEPT ![r] =
                    IF ch.some /\ FlushDue(r) THEN "edit"
                    ELSE IF ch.finish THEN "final_edit" ELSE "read"]
    /\ UNCHANGED <<cfg, now, mutex, ai_context, wacks, wack_chan, msg, sinks,
                   messages, sys_msg, final_messages, stream_begin, flushes,
                   edits>>

\* lines 354-362, 386: a chunk arrives; its content goes to the three buffers
NextChunk(r, texts, max) ==
    /\ pc[r] = "read"
    /\ stream[r] = "open"
    /\ Len(delivered[r]) < max
    /\ \E ch \in Chunks(texts) :
        /\ delivered' = [delivered EXCEPT ![r] = Append(@, ch)]
        /\ stream' = [stream EXCEPT ![r] = IF ch.finish THEN "finished" ELSE @]
        /\ response' = [response EXCEPT ![r] = @ \o ch.text]
        /\ total_response' = [total_response EXCEPT ![r] = @ \o ch.text]
        /\ since_last_update' = [since_last_update EXCEPT ![r] = @ \o ch.text]
        /\ IF ch.some /\ FlushDue(r)
           THEN /\ last_update' = [last_update EXCEPT ![r] = now]
                /\ pc' = [pc EXCEPT ![r] = "edit"]
           ELSE /\ last_update' = last_update
                /\ pc' = [pc EXCEPT ![r] =
                            IF ch.finish THEN "final_edit" ELSE "read"]
    /\ UNCHANGED <<cfg, now, mutex, ai_context, wacks, wack_chan, msg, sinks,
                   messages, sys_msg, final_messages, stream_begin, flushes,
                   edits>>

\* the end of the stream taken for its completion
StreamEnds_commits(r) ==
    /\ pc[r] = "read"
    /\ stream[r] = "open"
    /\ stream' = [stream EXCEPT ![r] = "ended"]
    /\ pc' = [pc EXCEPT ![r] = "commit"]
    /\ UNCHANGED <<cfg, now, mutex, ai_context, wacks, wack_chan, msg, sinks,
                   messages, sys_msg, final_messages, delivered, response,
                   total_response, since_last_update, last_update,
                   stream_begin, flushes, edits>>

\* lines 354, 423-433: the stream ends with no finish_reason: Ok(None)
StreamEnds(r) ==
    /\ pc[r] = "read"
    /\ stream[r] = "open"
    /\ stream' = [stream EXCEPT ![r] = "ended"]
    /\ pc' = [pc EXCEPT ![r] = "error_edit"]
    /\ UNCHANGED <<cfg, now, mutex, ai_context, wacks, wack_chan, msg, sinks,
                   messages, sys_msg, final_messages, delivered, response,
                   total_response, since_last_update, last_update,
                   stream_begin, flushes, edits>>

\* line 354: try_next() returns Err: `while let Ok(..)` leaves the loop
StreamFails(r) ==
    /\ pc[r] = "read"
    /\ stream[r] = "open"
    /\ stream' = [stream EXCEPT ![r] = "failed"]
    /\ pc' = [pc EXCEPT ![r] = "done"]
    /\ UNCHANGED <<cfg, now, mutex, ai_context, wacks, wack_chan, msg, sinks,
                   messages, sys_msg, final_messages, delivered, response,
                   total_response, since_last_update, last_update,
                   stream_begin, flushes, edits>>

(* ------------------------------ flushes ------------------------------- *)
\* the new message seeded with the whole text of the old one
SpillSeed_whole(r) == response[r]

\* line 375, 403: what the new message is seeded with
SpillSeed(r) == since_last_update[r]

\* the reset of line 382 forgotten
ResetSince_forgotten(r) == since_last_update

\* line 382: since_last_update = "".to_string()
ResetSince(r) == [since_last_update EXCEPT ![r] = <<>>]

\* lines 367-368, 382: the timed edit of sent_msg with `response`
TimedEdit(r, oks) ==
    /\ pc[r] = "edit"
    /\ flushes' = [flushes EXCEPT ![r] = @ + 1]
    /\ edits' = [edits EXCEPT ![r] = @ + 1]
    /\ \E ok \in oks :
        IF ok
        THEN /\ sinks' = EditActive(r, Shown(response[r], FALSE))
             /\ since_last_update' = ResetSince(r)
             /\ pc' = [pc EXCEPT ![r] = AfterContent(r)]
        ELSE /\ pc' = [pc EXCEPT ![r] = "reply"]
             /\ UNCHANGED <<sinks, since_last_update>>
    /\ UNCHANGED <<cfg, now, mutex, ai_context, wacks, wack_chan, msg,
                   messages, sys_msg, final_messages, stream, delivered,
                   response, total_response, last_update, stream_begin>>

\* lines 370-375: the "Continuing response..." reply; expect() on failure
SpillReply(r) ==
    /\ pc[r] = "reply"
    /\ \E ok \in BOOLEAN :
        IF ok
        THEN /\ sinks' = OpenSink(r, "continuing")
             /\ response' = [response EXCEPT ![r] = SpillSeed(r)]
             /\ pc' = [pc EXCEPT ![r] = "seed_edit"]
        ELSE /\ pc' = [pc EXCEPT ![r] = "panicked"]
             /\ UNCHANGED <<sinks, response>>
    /\ UNCHANGED <<cfg, now, mutex, ai_context, wacks, wack_chan, msg,
                   messages, sys_msg, final_messages, stream, delivered,
                   total_response, since_last_update, last_update,
                   stream_begin, flushes, edits>>

\* lines 376-382: the edit that seeds the new message; a failure is logged
SeedEdit(r) ==
    /\ pc[r] = "seed_edit"
    /\ edits' = [edits EXCEPT ![r] = @ + 1]
    /\ \E ok \in BOOLEAN :
        sinks' = IF ok THEN EditActive(r, Shown(response[r], FALSE)) ELSE sinks
    /\ since_last_update' = ResetSince(r)
    /\ pc' = [pc EXCEPT ![r] = AfterContent(r)]
    /\ UNCHANGED <<cfg, now, mutex, ai_context, wacks, wack_chan, msg,
                   messages, sys_msg, final_messages, stream, delivered,
                   response, total_response, last_update, stream_begin,
                   flushes>>

\* a failed final edit taken for delivered: no new message, straight to commit
FinalEdit_nospill(r, oks) ==
    /\ pc[r] = "final_edit"
    /\ flushes' = [flushes EXCEPT ![r] = @ + 1]
    /\ edits' = [edits EXCEPT ![r] = @ + 1]
    /\ \E ok \in oks :
        sinks' = IF ok THEN EditActive(r, Shown(response[r], TRUE)) ELSE sinks
    /\ pc' = [pc EXCEPT ![r] = "commit"]
    /\ UNCHANGED <<cfg, now, mutex, ai_context, wacks, wack_chan, msg,
                   messages, sys_msg, final_messages, stream, delivered,
                   response, total_response, since_last_update, last_update,
                   stream_begin>>

\* lines 386-396: finish_reason is set: the edit with `response` and the footer
FinalEdit(r, oks) ==
    /\ pc[r] = "final_edit"
    /\ flushes' = [flushes EXCEPT ![r] = @ + 1]
    /\ edits' = [edits EXCEPT ![r] = @ + 1]
    /\ \E ok \in oks :
        IF ok
        THEN /\ sinks' = EditActive(r, Shown(response[r], TRUE))
             /\ pc' = [pc EXCEPT ![r] = "commit"]
        ELSE /\ pc' = [pc EXCEPT ![r] = "final_reply"]
             /\ sinks' = sinks
    /\ UNCHANGED <<cfg, now, mutex, ai_context, wacks, wack_chan, msg,
                   messages, sys_msg, final_messages, stream, delivered,
                   response, total_response, since_last_update, last_update,
                   stream_begin>>

\* lines 398-403: the "Continuing response..." reply of the final flush
FinalSpillReply(r) ==
    /\ pc[r] = "final_reply"
    /\ \E ok \in BOOLEAN :
        IF ok
        THEN /\ sinks' = OpenSink(r, "continuing")
             /\ response' = [response EXCEPT ![r] = SpillSeed(r)]
             /\ pc' = [pc EXCEPT ![r] = "final_seed_edit"]
        ELSE /\ pc' = [pc EXCEPT ![r] = "panicked"]
             /\ UNCHANGED <<sinks, response>>
    /\ UNCHANGED <<cfg, now, mutex, ai_context, wacks, wack_chan, msg,
                   messages, sys_msg, final_messages, stream, delivered,
                   total_response, since_last_update, last_update,
                   stream_begin, flushes, edits>>

\* lines 404-408: the edit that seeds it, without the footer; failure logged
FinalSeedEdit(r) ==
    /\ pc[r] = "final_seed_edit"
    /\ edits' = [edits EXCEPT ![r] = @ + 1]
    /\ \E ok \in BOOLEAN :
        sinks' = IF ok THEN EditActive(r, Shown(response[r], FALSE)) ELSE sinks
    /\ pc' = [pc EXCEPT ![r] = "commit"]
    /\ UNCHANGED <<cfg, now, mutex, ai_context, wacks, wack_chan, msg,
                   messages, sys_msg, final_messages, stream, delivered,
                   response, total_response, since_last_update, last_update,
                   stream_begin, flushes>>

\* line 410: ai_context.lock().unwrap()
LockCommit(r) ==
    /\ pc[r] = "commit"
    /\ mutex = "free"
    /\ mutex' = r
    /\ pc' = [pc EXCEPT ![r] = "commit_locked"]
    /\ UNCHANGED <<cfg, now, ai_context, wacks, wack_chan, msg, sinks,
                   messages, sys_msg, final_messages, stream, delivered,
                   response, total_response, since_last_update, last_update,
                   stream_begin, flushes, edits>>

\* the text of the current Discord message committed instead
CommittedText_response(r) == response[r]

\* line 415: the text of the assistant message
CommittedText(r) == total_response[r]

\* the guard kept alive after the push: the lock is never released
Commit_holds(r) ==
    /\ pc[r] = "commit_locked"
    /\ mutex = r
    /\ ai_context' = Push(ai_context, msg[r].channel_id,
                          AssistantTurn(r, CommittedText(r)))
    /\ pc' = [pc EXCEPT ![r] = "done"]
    /\ UNCHANGED <<cfg, now, mutex, wacks, wack_chan, msg, sinks, messages,
                   sys_msg, final_messages, stream, delivered, response,
                   total_response, since_last_update, last_update,
                   stream_begin, flushes, edits>>

\* the answer dropped when a clear removed the user turn it answers
Commit_ifpresent(r) ==
    /\ pc[r] = "commit_locked"
    /\ mutex = r
    /\ ai_context' =
          IF \E i \in 1..Len(History(msg[r].channel_id)) :
                History(msg[r].channel_id)[i] = UserTurn(r)
          THEN Push(ai_context, msg[r].channel_id,
                    AssistantTurn(r, CommittedText(r)))
          ELSE ai_context
    /\ mutex' = "free"
    /\ pc' = [pc EXCEPT ![r] = "done"]
    /\ UNCHANGED <<cfg, now, wacks, wack_chan, msg, sinks, messages, sys_msg,
                   final_messages, stream, delivered, response,
                   total_response, since_last_update, last_update,
                   stream_begin, flushes, edits>>

\* lines 411-420: push the assistant message; break drops the guard
Commit(r) ==
    /\ pc[r] = "commit_locked"
    /\ mutex = r
    /\ ai_context' = Push(ai_context, msg[r].channel_id,
                          AssistantTurn(r, CommittedText(r)))
    /\ mutex' = "free"
    /\ pc' = [pc EXCEPT ![r] = "done"]
    /\ UNCHANGED <<cfg, now, wacks, wack_chan, msg, sinks, messages, sys_msg,
                   final_messages, stream, delivered, response,
                   total_response, since_last_update, last_update,
                   stream_begin, flushes, edits>>

\* lines 424-432: the edit with "Error generating response!"; failure logged
ErrorEdit(r) ==
    /\ pc[r] = "error_edit"
    /\ \E ok \in BOOLEAN :
        sinks' = IF ok THEN EditActive(r, ErrorShown) ELSE sinks
    /\ pc' = [pc EXCEPT ![r] = "done"]
    /\ UNCHANGED <<cfg, now, mutex, ai_context, wacks, wack_chan, msg,
                   messages, sys_msg, final_messages, stream, delivered,
                   response, total_response, since_last_update, last_update,
                   stream_begin, flushes, edits>>

(* -------------------------------- wack -------------------------------- *)
\* main.rs line 64: ai_ctx.lock().unwrap()
LockWack(c) ==
    /\ wacks < MaxWacks
    /\ mutex = "free"
    /\ mutex' = "wack"
    /\ wack_chan' = c
    /\ UNCHANGED <<cfg, now, ai_context, wacks, pc, msg, sinks, messages,
                   sys_msg, final_messages, stream, delivered, response,
                   total_response, since_last_update, last_update,
                   stream_begin, flushes, edits>>

\* the guard of wack kept alive: the clear is done, the lock never released
Wack_holds ==
    /\ mutex = "wack"
    /\ wacks < MaxWacks
    /\ ai_context' = Cleared(ai_context, wack_chan)
    /\ wacks' = wacks + 1
    /\ UNCHANGED <<cfg, now, mutex, wack_chan, pc, msg, sinks, messages,
                   sys_msg, final_messages, stream, delivered, response,
                   total_response, since_last_update, last_update,
                   stream_begin, flushes, edits>>

\* main.rs lines 65-67: entry(channel).or_default().clear(); the guard drops
Wack ==
    /\ mutex = "wack"
    /\ ai_context' = Cleared(ai_context, wack_chan)
    /\ mutex' = "free"
    /\ wacks' = wacks + 1
    /\ UNCHANGED <<cfg, now, wack_chan, pc, msg, sinks, messages, sys_msg,
                   final_messages, stream, delivered, response,
                   total_response, since_last_update, last_update,
                   stream_begin, flushes, edits>>

(* ------------------------------- clock -------------------------------- *)
\* time passes between any two steps
Tick ==
    /\ now < MaxTime
    /\ now' = now + 1
    /\ UNCHANGED <<cfg, mutex, ai_context, wacks, wack_chan, pc, msg, sinks,
                   messages, sys_msg, final_messages, stream, delivered,
                   response, total_response, since_last_update, last_update,
                   stream_begin, flushes, edits>>

(* --------------------------- specifications --------------------------- *)
NoMsg == [channel_id |-> "c1", content |-> <<>>]

\* main.rs line 118: the map starts empty; no request has started
InitWith(cfgs, ctxs) ==
    /\ cfg \in cfgs
    /\ ai_context \in ctxs
    /\ now = 0
    /\ mutex = "free"
    /\ wacks = 0
    /\ wack_chan = "c1"
    /\ pc = [r \in Reqs |-> "idle"]
    /\ msg = [r \in Reqs |-> NoMsg]
    /\ sinks = [r \in Reqs |-> <<>>]
    /\ messages = [r \in Reqs |-> <<>>]
    /\ sys_msg = [r \in Reqs |-> SysTurn(r, 1)]
    /\ final_messages = [r \in Reqs |-> <<>>]
    /\ stream = [r \in Reqs |-> "none"]
    /\ delivered = [r \in Reqs |-> <<>>]
    /\ response = [r \in Reqs |-> <<>>]
    /\ total_response = [r \in Reqs |-> <<>>]
    /\ since_last_update = [r \in Reqs |-> <<>>]
    /\ last_update = [r \in Reqs |-> 0]
    /\ stream_begin = [r \in Reqs |-> 0]
    /\ flushes = [r \in Reqs |-> 0]
    /\ edits = [r \in Reqs |-> 0]

Config(limit, window, build) ==
    [token_limit |-> limit, context_window |-> window, build |-> build]

EmptyMap == [c \in {} |-> <<>>]

\* one request streaming, with every sink and stream failure and the clock
RenderInit == InitWith({Config(MaxBudget, LibCtx, "release")}, {EmptyMap})

RenderNext ==
    \/ Tick
    \/ \E r \in {"r1"} :
        \/ StartRequest(r, {"c1"}, {<<"a">>})
        \/ LockAppend(r)
        \/ AppendUser(r, {1})
        \/ CreateStream(r)
        \/ NextChunk(r, FragTexts, MaxChunks)
        \/ StreamEnds(r)
        \/ StreamFails(r)
        \/ TimedEdit(r, BOOLEAN)
        \/ SpillReply(r)
        \/ SeedEdit(r)
        \/ FinalEdit(r, BOOLEAN)
        \/ FinalSpillReply(r)
        \/ FinalSeedEdit(r)
        \/ LockCommit(r)
        \/ Commit(r)
        \/ ErrorEdit(r)

RenderSpec == RenderInit /\ [][RenderNext]_vars

\* two requests and wack interleaved within one flush interval; Discord
\* accepts every edit; the budget holds the system message alone, or all
ConcInit ==
    InitWith({Config(l, LibCtx, "release") : l \in {1, MaxBudget}}, {EmptyMap})

ConcNext ==
    \/ \E c \in Chans : LockWack(c)
    \/ Wack
    \/ \E r \in Reqs :
        \/ StartRequest(r, Chans, {<<"a">>})
        \/ LockAppend(r)
        \/ AppendUser(r, {1})
        \/ CreateStream(r)
        \/ NextChunk(r, {<<"a">>}, ConcChunks)
        \/ StreamEnds(r)
        \/ StreamFails(r)
        \/ FinalEdit(r, {TRUE})
        \/ LockCommit(r)
        \/ Commit(r)
        \/ ErrorEdit(r)

ConcSpec == ConcInit /\ [][ConcNext]_vars

\* the selection over every small history, budget, window and build
OldTurns == {Turn("user", "old", t) : t \in UserTexts}

Configs ==
    {Config(l, w, b) : l \in 0..MaxBudget,
                       w \in {LibCtx - 2, LibCtx, LibCtx + 1}, b \in Builds}

SelectInit ==
    InitWith(Configs, {[c \in {"c1"} |-> h] : h \in SeqsUpTo(OldTurns, MaxHist)})

SelectNext ==
    \E r \in {"r1"} :
        \/ StartRequest(r, {"c1"}, UserTexts)
        \/ LockAppend(r)
        \/ AppendUser(r, 1..MaxSysTok)

SelectSpec == SelectInit /\ [][SelectNext]_vars

(* ============================== claims =============================== *)
\* C1 (streaming fidelity): every assistant turn in a history holds exactly
\* the concatenation of the fragments the backend delivered to its request,
\* and its stream reached the completion signal, whatever the flushes did.
C1_StreamingFidelity ==
    \A c \in DOMAIN ai_context : \A i \in 1..Len(ai_context[c]) :
        LET t == ai_context[c][i] IN
        t.role = "assistant" =>
            /\ t.content = Received(t.src)
            /\ stream[t.src] = "finished"

\* C1 witness: a committed answer of two fragments or more whose request
\* flushed on time and spilled over to a second message.
C1_Witness ==
    \E r \in Reqs :
        /\ pc[r] = "done"
        /\ Len(sinks[r]) >= 2
        /\ flushes[r] >= 2
        /\ Len(Received(r)) >= 2
        /\ History(msg[r].channel_id) # <<>>
        /\ History(msg[r].channel_id)[Len(History(msg[r].channel_id))]
              = AssistantTurn(r, Received(r))

\* a flush attempt, with its recovery, is complete and nothing came since
FlushCompleted(r) ==
    \/ pc[r] \in {"read", "final_edit"} /\ flushes[r] > 0
          /\ since_last_update[r] = <<>>
    \/ pc[r] \in {"commit", "commit_locked"}
    \/ pc[r] = "done" /\ stream[r] = "finished"

\* no spillover message is left showing only "Continuing response..."
SeedsWritten(r) ==
    \A i \in 2..Len(sinks[r]) : sinks[r][i].kind # "continuing"

C3_SpilloverSeed ==
    [][\A r \in Reqs :
        /\ (/\ pc[r] \in {"reply", "final_reply"}
            /\ pc'[r] \in {"seed_edit", "final_seed_edit"}
            /\ sinks[r][Active(r)].kind = "response")
           => /\ response'[r] = since_last_update[r]
              /\ sinks[r][Active(r)].text \o response'[r] = response[r]
              /\ Len(sinks'[r]) = Len(sinks[r]) + 1
        /\ (/\ pc[r] \in {"seed_edit", "final_seed_edit"}
            /\ sinks'[r] # sinks[r])
           => sinks'[r] = EditActive(r, Shown(response[r], FALSE))[r]
      ]_vars

\* C3 witness: a spillover message about to be seeded with a non-empty Y
\* while the message before it shows a non-empty X.
C3_Witness ==
    \E r \in Reqs :
        /\ pc[r] = "seed_edit"
        /\ Len(sinks[r]) = 2
        /\ sinks[r][1].kind = "response" /\ sinks[r][1].text # <<>>
        /\ response[r] # <<>>
        /\ response[r] = since_last_update[r]
        /\ sinks[r][1].text \o response[r] = Received(r)

\* the time the stream of a request has lasted so far
Lasted(r) == now - stream_begin[r]

\* C9 as stated (rate bound): the sink updates carrying response text that a
\* request emits number at most ceil(T/I) + 1 for a stream lasting T.
C9_RateBoundEdits ==
    \A r \in Reqs :
        stream[r] # "none" => edits[r] <= CeilDiv(Lasted(r), UPDATE_INTERVAL) + 1

\* C9 amended: the flush attempts (timed flushes and the final flush, the
\* seed write of an Overflow recovery not counted) number at most
\* ceil(T/I) + 1.
C9_RateBound ==
    \A r \in Reqs :
        stream[r] # "none"
            => flushes[r] <= CeilDiv(Lasted(r), UPDATE_INTERVAL) + 1

\* C9 witness: a finished request that flushed twice on time and once at the
\* end, which is the bound for the time its stream lasted.
C9_Witness ==
    \E r \in Reqs :
        /\ pc[r] = "done"
        /\ stream[r] = "finished"
        /\ flushes[r] = 3
        /\ flushes[r] = CeilDiv(Lasted(r), UPDATE_INTERVAL) + 1

\* the turns of a role that a request has in the histories
TurnsOf(r, role) ==
    {<<c, i>> \in (DOMAIN ai_context) \X (1..(2 * Cardinality(Reqs) + MaxHist)) :
        /\ i <= Len(ai_context[c])
        /\ ai_context[c][i].src = r
        /\ ai_context[c][i].role = role}

\* a step appends a turn of that role for the request
Appends(r, role) ==
    \E c \in DOMAIN ai_context' :
        LET h == IF c \in DOMAIN ai_context THEN ai_context[c] ELSE <<>> IN
        /\ ai_context'[c] = Append(h, ai_context'[c][Len(ai_context'[c])])
        /\ ai_context'[c][Len(ai_context'[c])].src = r
        /\ ai_context'[c][Len(ai_context'[c])].role = role

Selected(r) == pc[r] = "create_stream"

\* the turns of the submission list after the system message
Chosen(r) == Tail(final_messages[r])

\* the cost the selection uses for a turn (Panic when computing it panics)
Cost(turn) == msg_tokens(turn, cfg)

\* the summed cost of the turns of a list
RECURSIVE CostSum(_)
CostSum(ts) == IF ts = <<>> THEN 0 ELSE Cost(Head(ts)) + CostSum(Tail(ts))

\* the suffix of the snapshot that starts at turn k
SuffixFrom(r, k) == SubSeq(messages[r], k, Len(messages[r]))

\* C4 (suffix property): the submission list is the system message followed
\* by a trailing part of the snapshot of the history, in its order.
C4_Suffix ==
    \A r \in Reqs :
        Selected(r) =>
            \E k \in 1..(Len(messages[r]) + 1) :
                final_messages[r] = <<sys_msg[r]>> \o SuffixFrom(r, k)

\* C4 witness: a selection that kept two turns or more and dropped an older
\* one.
C4_Witness ==
    \E r \in Reqs :
        /\ Selected(r)
        /\ Len(Chosen(r)) >= 2
        /\ Len(Chosen(r)) < Len(messages[r])

\* C5 (budget respect): when the budget exceeds the cost of the system
\* message, the summed cost of the other turns of the submission list is at
\* most the difference.
C5_BudgetRespect ==
    \A r \in Reqs :
        Selected(r) /\ cfg.token_limit - Cost(sys_msg[r]) > 0
            => CostSum(Chosen(r)) <= cfg.token_limit - Cost(sys_msg[r])

\* C6 (non-empty guarantee): the submission list starts with the system
\* message, and is the system message alone when its cost exceeds the budget.
C6_PreambleAlways ==
    \A r \in Reqs :
        Selected(r) =>
            /\ final_messages[r] # <<>>
            /\ final_messages[r][1] = sys_msg[r]
            /\ Cost(sys_msg[r]) > cfg.token_limit
                 => final_messages[r] = <<sys_msg[r]>>

\* the suffix from turn k has costs and fits the budget together with the
\* system message
Fits(r, k) ==
    /\ \A i \in k..Len(messages[r]) : Cost(messages[r][i]) # Panic
    /\ Cost(sys_msg[r]) + CostSum(SuffixFrom(r, k)) <= cfg.token_limit

\* C7 (maximality): the turns selected are the longest trailing part of the
\* snapshot that fits the budget together with the system message.
C7_Maximal ==
    \A r \in Reqs :
        Selected(r) =>
            LET k == Len(messages[r]) - Len(Chosen(r)) + 1 IN
            /\ Chosen(r) = SuffixFrom(r, k)
            /\ Chosen(r) # <<>> => Fits(r, k)
            /\ \A j \in 1..(k - 1) : ~Fits(r, j)

(* ------------------------------- clear -------------------------------- *)
\* the step is the clear of wack
WackStep == mutex = "wack" /\ mutex' = "free"

\* the step is the append and selection of a request on a history that has
\* a record and is empty, as wack leaves it
SelectsOnCleared(r) ==
    /\ pc[r] = "append_locked"
    /\ pc'[r] = "create_stream"
    /\ wacks > 0
    /\ msg[r].channel_id \in DOMAIN ai_context
    /\ ai_context[msg[r].channel_id] = <<>>

\* C8 as stated (clear resets): clear leaves the record with an empty
\* history, and the next selection for that conversation is the system
\* message alone.
C8_ClearThenPreambleOnly ==
    [][/\ WackStep =>
            /\ wack_chan \in DOMAIN ai_context'
            /\ ai_context'[wack_chan] = <<>>
       /\ \A r \in Reqs :
            SelectsOnCleared(r) => final_messages'[r] = <<sys_msg'[r]>>
      ]_vars

\* C8 amended: clear leaves the record with an empty history, and the next
\* selection for that conversation, made by a request that has appended its
\* own user turn, is the system message followed by that turn alone, or the
\* system message alone when the turn does not fit.
C8_ClearResets ==
    [][/\ WackStep =>
            /\ wack_chan \in DOMAIN ai_context'
            /\ ai_context'[wack_chan] = <<>>
       /\ \A r \in Reqs :
            SelectsOnCleared(r) =>
                /\ messages'[r] = <<UserTurn(r)>>
                /\ final_messages'[r] \in
                      {<<sys_msg'[r]>>, <<sys_msg'[r], UserTurn(r)>>}
      ]_vars

\* C8 witness: two requests of one channel each took a snapshot holding its
\* own user turn only, so a clear ran between their appends; the later one
\* selected the system message and its own turn.
C8_Witness ==
    /\ wacks > 0
    /\ msg["r1"].channel_id = msg["r2"].channel_id
    /\ messages["r1"] = <<UserTurn("r1")>>
    /\ messages["r2"] = <<UserTurn("r2")>>
    /\ \E r \in Reqs :
          /\ pc[r] = "create_stream"
          /\ final_messages[r] = <<sys_msg[r], UserTurn(r)>>

(* --------------------------- error handling --------------------------- *)
\* C11 (stream error is made visible): when the request is over and its
\* stream failed with an error, the message the request was editing shows
\* the error text.
C11_StreamErrorVisible ==
    \A r \in Reqs :
        pc[r] = "done" /\ stream[r] = "failed"
            => sinks[r][Active(r)] = ErrorShown

\* create_stream failed: the request panicked with its submission list built
\* and no stream
InvocationFailed(r) ==
    /\ pc[r] = "panicked"
    /\ final_messages[r] # <<>>
    /\ stream[r] = "none"

\* C12 (backend invocation failure): when the generation request could not
\* be started, the message of the request shows the error, and the history
\* holds the user turn of the request and nothing else of it.
C12_InvocationFailureReported ==
    \A r \in Reqs :
        InvocationFailed(r) =>
            /\ sinks[r][Active(r)].kind = "error"
            /\ Cardinality(TurnsOf(r, "user")) = 1
            /\ TurnsOf(r, "assistant") = {}

\* the request panicked after its placeholder was sent and before it had a
\* submission list: the token count (or the lookups before it) failed
EstimationFailed(r) ==
    /\ pc[r] = "panicked"
    /\ sinks[r] # <<>>
    /\ final_messages[r] = <<>>

\* C13 (cost estimation failure): when the token count fails, no stream was
\* created, no submission list exists, and the message of the request shows
\* a failure to the user.
C13_EstimationFailureReported ==
    \A r \in Reqs :
        EstimationFailed(r) =>
            /\ stream[r] = "none"
            /\ final_messages[r] = <<>>
            /\ sinks[r][Active(r)].kind = "error"

(* ------------------------------ lock scope ---------------------------- *)
\* positions at which a request is in, or about to start, a network call:
\* create_stream, try_next, Message::edit, Message::reply
NetworkPcs ==
    {"create_stream", "read", "edit", "reply", "seed_edit", "final_edit",
     "final_reply", "final_seed_edit", "error_edit"}

\* C14 (lock scope): whoever holds the lock is inside one of the in-memory
\* mutations (append and snapshot, append of the assistant turn, clear); a
\* request at a network call, waiting for the lock, finished or aborted does
\* not hold it.
C14_LockScope ==
    /\ mutex \in {"free", "wack"} \cup Reqs
    /\ \A r \in Reqs :
        /\ mutex = r => pc[r] \in {"append_locked", "commit_locked"}
        /\ pc[r] \in NetworkPcs \cup {"append", "commit", "done", "panicked"}
             => mutex # r

\* C14 witness: one request is reading its stream, having received a chunk,
\* while a request of another conversation holds the lock for its append.
C14_Witness ==
    \E r \in Reqs, q \in Reqs :
        /\ pc[r] = "read" /\ stream[r] = "open" /\ delivered[r] # <<>>
        /\ msg[q].channel_id # msg[r].channel_id
        /\ pc[q] = "append_locked" /\ mutex = q

(* ---------------------------- final flush ----------------------------- *)
\* C15 (footer on the final visible text): when a request whose stream
\* completed normally is over, the message it was editing last shows the
\* footer, whether the final edit landed or the output moved to a new
\* message.
C15_FooterOnFinal ==
    \A r \in Reqs :
        pc[r] = "done" /\ stream[r] = "finished"
            => sinks[r][Active(r)].footer

\* the request has committed its assistant turn
Committed(r) == TurnsOf(r, "assistant") # {}

\* the last write to the active message landed: it shows the buffer
Delivered(r) ==
    /\ sinks[r][Active(r)].kind = "response"
    /\ sinks[r][Active(r)].text = response[r]

\* C16 as stated (commit only after delivery): an assistant turn is in the
\* history only if the final flush of its request succeeded, on the original
\* message or on a spillover message.
C16_CommitAfterDelivery ==
    \A r \in Reqs : Committed(r) => Delivered(r)

\* C16 amended: an assistant turn is in the history only if the stream of
\* its request completed and the final flush was attempted and either landed
\* (the message shows the buffer and the footer) or was followed by a new
\* message and an attempt to write its seed, whether or not that write
\* landed.
C16_CommitAfterFinalFlush ==
    \A r \in Reqs :
        Committed(r) =>
            /\ stream[r] = "finished"
            /\ flushes[r] >= 1
            /\ \/ sinks[r][Active(r)] = Shown(response[r], TRUE)
               \/ /\ Len(sinks[r]) >= 2
                  /\ sinks[r][Active(r)] \in
                        {Shown(response[r], FALSE), Placeholder("continuing")}

\* C16 witness: an answer committed after its final edit failed and the new
\* message took the seed.
C16_Witness ==
    \E r \in Reqs :
        /\ Committed(r)
        /\ Len(sinks[r]) = 2
        /\ sinks[r][1] = Placeholder("generating")
        /\ sinks[r][2] = Shown(response[r], FALSE)
        /\ response[r] # <<>>

\* C17 (partial text survives a stream error): once the stream has failed or
\* ended without a completion signal, no step changes the response text the
\* messages of the request show, and the request has no assistant turn.
C17_PartialTextSurvives ==
    /\ [](\A r \in Reqs :
            stream[r] \in {"failed", "ended"} => ~Committed(r))
    /\ [][\A r \in Reqs :
            stream[r] \in {"failed", "ended"}
                => ShownText(sinks'[r]) = ShownText(sinks[r])]_vars

(* ---------------------------- append order ---------------------------- *)
\* C18 (append order under concurrency): a history changes only inside a
\* critical section, and there only by the holder of the lock: a request adds
\* its user turn or its assistant turn at the end, wack empties the history
\* of its channel; so a history is the turns appended since the last clear,
\* in the order of the critical sections.
C18_AppendOrder ==
    [][\A c \in Chans :
        History(c)' # History(c) =>
            \/ /\ mutex = "wack" /\ wack_chan = c
               /\ History(c)' = <<>>
            \/ \E r \in Reqs :
                /\ mutex = r /\ msg[r].channel_id = c
                /\ \/ /\ pc[r] = "append_locked"
                      /\ History(c)' = Append(History(c), UserTurn(r))
                   \/ /\ pc[r] = "commit_locked"
                      /\ History(c)' =
                            Append(History(c),
                                   AssistantTurn(r, total_response[r]))
      ]_vars

\* C18 witness: two requests of one conversation appended both user turns
\* before either assistant turn, and the request that arrived second
\* completed first.
C18_Witness ==
    \E r \in Reqs, q \in Reqs :
        /\ r # q
        /\ msg[r].channel_id = msg[q].channel_id
        /\ History(msg[r].channel_id) =
              <<UserTurn(r), UserTurn(q),
                AssistantTurn(q, total_response[q]),
                AssistantTurn(r, total_response[r])>>

(* ------------------------- sink write failures ------------------------ *)
\* C19 (sink write errors are recovered locally): a request that has made a
\* flush attempt is never aborted, whatever failed in the flush or in its
\* recovery, and a request whose stream completed normally ends with the
\* full text committed.
C19_SinkErrorsRecovered ==
    \A r \in Reqs :
        /\ flushes[r] > 0 => pc[r] # "panicked"
        /\ pc[r] = "done" /\ stream[r] = "finished"
             => /\ History(msg[r].channel_id) # <<>>
                /\ History(msg[r].channel_id)[Len(History(msg[r].channel_id))]
                      = AssistantTurn(r, Received(r))

(* --------------------------- throttled flushes ------------------------ *)
IsSuffix(a, b) ==
    /\ Len(a) <= Len(b)
    /\ SubSeq(b, Len(b) - Len(a) + 1, Len(b)) = a

\* C20 (throttled, coalescing flushes): a timed flush is decided only on the
\* arrival of a chunk with content, at least the interval after the last
\* flush attempt (or the stream start), and it writes the whole buffer of
\* the message: all the text received while the first message is the active
\* one, and always the text received since the last flush.  A chunk that
\* arrives sooner only adds to the buffers.  With no failed edit the request
\* ends with one message showing all the text and the footer, after at most
\* one timed flush per interval elapsed and the final flush.
C20_ThrottledFlushes ==
    /\ [](\A r \in Reqs :
            /\ IsSuffix(since_last_update[r], response[r])
            /\ IsSuffix(response[r], total_response[r])
            /\ total_response[r] = Received(r)
            /\ Len(sinks[r]) = 1 => response[r] = Received(r)
            /\ stream[r] # "none"
                 => flushes[r] <= (Lasted(r) \div UPDATE_INTERVAL) + 1
            /\ pc[r] = "done" /\ stream[r] = "finished" /\ Len(sinks[r]) = 1
                 => sinks[r] = <<Shown(Received(r), TRUE)>>)
    /\ [][\A r \in Reqs :
            /\ pc[r] = "read" /\ pc'[r] = "edit"
                 => /\ now - last_update[r] >= UPDATE_INTERVAL
                    /\ last_update'[r] = now
                    /\ Len(delivered'[r]) = Len(delivered[r]) + 1
                    /\ delivered'[r][Len(delivered'[r])].some
            /\ pc[r] = "read" /\ pc'[r] \in {"read", "final_edit"}
                 => /\ last_update'[r] = last_update[r]
                    /\ flushes'[r] = flushes[r]
                    /\ sinks'[r] = sinks[r]
                    /\ Len(since_last_update'[r]) - Len(since_last_update[r])
                         = Len(Received(r)') - Len(Received(r))
            /\ pc[r] = "edit" /\ sinks'[r] # sinks[r]
                 => sinks'[r][Active(r)] = Shown(response[r], FALSE)
         ]_vars

\* C20 witness: three chunks with text, the interval elapsed once, no edit
\* failed: one timed flush and the final flush, and the message shows the
\* three fragments and the footer.
C20_Witness ==
    \E r \in Reqs :
        /\ pc[r] = "done" /\ stream[r] = "finished"
        /\ Len(delivered[r]) = 3
        /\ \A i \in 1..3 : delivered[r][i].text # <<>>
        /\ Lasted(r) \div UPDATE_INTERVAL = 1
        /\ flushes[r] = 2
        /\ sinks[r] = <<Shown(Received(r), TRUE)>>

(* --------------------------- renderer states -------------------------- *)
\* the state of the renderer a request is in: 0 Idle (no fragment yet),
\* 1 Streaming, 2 Finalizing, 3 Done (ended, aborted or reporting the error)
Phase(r) ==
    IF pc[r] \in {"done", "panicked", "error_edit"} THEN 3
    ELSE IF pc[r] \in {"final_edit", "final_reply", "final_seed_edit",
                       "commit", "commit_locked"} THEN 2
    ELSE IF delivered[r] # <<>> THEN 1
    ELSE 0

\* the renderer never moves back, and after the final flush (with its
\* recovery) no chunk is read and no message is written
OrderedStep(r) ==
    /\ Phase(r)' >= Phase(r)
    /\ stream[r] = "finished" => delivered'[r] = delivered[r]
    /\ pc[r] \in {"commit", "commit_locked", "done"}
          => /\ delivered'[r] = delivered[r]
             /\ sinks'[r] = sinks[r]
             /\ flushes'[r] = flushes[r]

\* once the completion signal arrived the request is finalizing, or still in
\* the timed flush of the chunk that carried it
FinishedIsFinalizing(r) ==
    stream[r] = "finished" /\ pc[r] \notin {"edit", "reply", "seed_edit"}
        => Phase(r) >= 2

\* C21 as stated (renderer state order): no message exists for a request
\* before its first fragment arrived, in particular none for a request that
\* failed before any fragment; the renderer only moves Idle, Streaming,
\* Finalizing, Done, and nothing is read or flushed after the final flush.
C21_SinkOnFirstFragment ==
    /\ [](\A r \in Reqs :
            /\ delivered[r] = <<>> => sinks[r] = <<>>
            /\ FinishedIsFinalizing(r))
    /\ [][\A r \in Reqs : OrderedStep(r)]_vars

\* C21 amended: the first message is opened when the request starts, before
\* the user turn is appended and before any fragment, so a request that
\* failed before any fragment leaves that one placeholder; the renderer only
\* moves Idle, Streaming, Finalizing, Done, and nothing is read or flushed
\* after the final flush.
C21_StateOrder ==
    /\ [](\A r \in Reqs :
            /\ sinks[r] = <<>> <=>
                  (pc[r] = "idle" \/ (pc[r] = "panicked" /\ messages[r] = <<>>))
            /\ Phase(r) = 0 /\ sinks[r] # <<>>
                 => sinks[r] = <<Placeholder("generating")>>
            /\ InvocationFailed(r) \/ EstimationFailed(r)
                 => sinks[r] = <<Placeholder("generating")>>
            /\ FinishedIsFinalizing(r))
    /\ [][\A r \in Reqs : OrderedStep(r)]_vars

\* C21 witness: a request whose backend invocation failed, before any
\* fragment, with its placeholder message open.
C21_Witness ==
    \E r \in Reqs :
        /\ InvocationFailed(r)
        /\ delivered[r] = <<>>
        /\ sinks[r] = <<Placeholder("generating")>>

(* --------------------------- cost arithmetic -------------------------- *)
\* the turns whose cost a selection computed: the system message and the
\* turns of the snapshot
Costed(r) ==
    {sys_msg[r]} \cup {messages[r][i] : i \in 1..Len(messages[r])}

\* C22 (cost arithmetic): for every turn of a selection, the cost used
\* (context_window minus the remaining capacity) is the token count of the
\* turn, a non-negative integer: never wrapped, never inflated.
C22_CostExact ==
    \A r \in Reqs :
        Selected(r) =>
            \A t \in Costed(r) :
                /\ Cost(t) >= 0
                /\ Cost(t) = num_tokens(t)

(* ----------------------------- termination ---------------------------- *)
\* two requests of one conversation and wack on it interleaved, the final
\* edit accepted or rejected
LiveInit == InitWith({Config(MaxBudget, LibCtx, "release")}, {EmptyMap})

\* the steps of a request once it has started: each is the return of an
\* .await (Discord and the backend answer) or a lock operation
Step(r) ==
    \/ LockAppend(r)
    \/ AppendUser(r, {1})
    \/ CreateStream(r)
    \/ NextChunk(r, {<<"a">>}, LiveChunks)
    \/ StreamEnds(r)
    \/ StreamFails(r)
    \/ FinalEdit(r, BOOLEAN)
    \/ FinalSpillReply(r)
    \/ FinalSeedEdit(r)
    \/ LockCommit(r)
    \/ Commit(r)
    \/ ErrorEdit(r)

LiveNext ==
    \/ LockWack("c1")
    \/ Wack
    \/ \E r \in Reqs : StartRequest(r, {"c1"}, {<<"a">>}) \/ Step(r)

\* the runtime runs every task that can run, every call answers, and the
\* stream delivers a chunk, its end or an error; wack releases its guard
LiveSpec ==
    /\ LiveInit
    /\ [][LiveNext]_vars
    /\ \A r \in Reqs : WF_vars(Step(r))
    /\ WF_vars(Wack)

\* the request is over: it returned or its task panicked
Ended(r) == pc[r] \in {"done", "panicked"}

\* C23 (termination): every started request is eventually over, whatever
\* the other request, wack and the failing edits do.
C23_Termination ==
    \A r \in Reqs : (pc[r] # "idle") ~> Ended(r)

\* C23 witness: two requests of one conversation are over and a clear ran;
\* one of them had its final edit rejected and went on to a second message.
C23_Witness ==
    /\ \A r \in Reqs : pc[r] = "done" /\ stream[r] = "finished"
    /\ msg["r1"].channel_id = msg["r2"].channel_id
    /\ wacks > 0
    /\ \E r \in Reqs : Len(sinks[r]) = 2

(* ------------------------ append and snapshot ------------------------- *)
\* the snapshot of a request ends with the request's own user turn
OwnTurnLast(r) ==
    /\ messages[r] # <<>>
    /\ messages[r][Len(messages[r])] = UserTurn(r)

\* C24 (atomic append-and-snapshot): the snapshot a selection was made from
\* ends with the request's own user turn; the submission list ends with that
\* turn when its cost and the cost of the system message are within the
\* budget together, and is the system message alone when they are not.
C24_OwnTurnSelected ==
    \A r \in Reqs :
        Selected(r) =>
            /\ OwnTurnLast(r)
            /\ Cost(sys_msg[r]) + Cost(UserTurn(r)) <= cfg.token_limit
                 => final_messages[r][Len(final_messages[r])] = UserTurn(r)
            /\ Cost(sys_msg[r]) + Cost(UserTurn(r)) > cfg.token_limit
                 => final_messages[r] = <<sys_msg[r]>>

(* ------------------------ clear during a request ---------------------- *)
\* the request has a turn of that role in the history of its channel, the
\* only one it pushes to
HasTurn(r, role) ==
    \E i \in 1..Len(History(msg[r].channel_id)) :
        /\ History(msg[r].channel_id)[i].src = r
        /\ History(msg[r].channel_id)[i].role = role

\* the user turn of a request is gone from the history it was appended to
UserTurnCleared(r) ==
    /\ pc[r] \notin {"idle", "append", "append_locked"}
    /\ messages[r] # <<>>
    /\ ~HasTurn(r, "user")

\* C25 (clear does not cancel in-flight generations): the commit of a
\* request appends its assistant turn to the history as it is then, also
\* when a clear has removed the request's user turn; and a turn that a clear
\* removed is never in a history again.
C25_ClearDoesNotCancel ==
    [][\A r \in Reqs :
        /\ pc[r] = "commit_locked" /\ pc'[r] = "done"
             => History(msg[r].channel_id)' =
                   Append(History(msg[r].channel_id),
                          AssistantTurn(r, total_response[r]))
        /\ UserTurnCleared(r) => ~HasTurn(r, "user")'
        /\ pc[r] = "done" /\ ~HasTurn(r, "assistant")
             => ~HasTurn(r, "assistant")'
      ]_vars

\* C25 witness: a clear ran between the append of a request's user turn and
\* its commit: the history starts with the assistant turn of that request.
C25_Witness ==
    \E r \in Reqs :
        /\ pc[r] = "done"
        /\ wacks > 0
        /\ UserTurnCleared(r)
        /\ History(msg[r].channel_id) # <<>>
        /\ History(msg[r].channel_id)[1] = AssistantTurn(r, Received(r))

(* --------------------------- request trigger -------------------------- *)
\* AUTORESPOND_CHANNELS, split at the commas (main.rs lines 83-87)
AutoChans == {"c1"}

\* contents of an inbound message, "~" at the start, later, or not at all
TriggerTexts == {<<>>, <<"a">>, <<"~">>, <<"~", "a">>, <<"a", "~">>}

\* an inbound message: the fields Handler::message reads
Inbound ==
    [channel_id : Chans, content : TriggerTexts,
     mentions : BOOLEAN, author_bot : BOOLEAN]

\* str::starts_with
starts_with(text, prefix) ==
    /\ Len(text) >= Len(prefix)
    /\ SubSeq(text, 1, Len(prefix)) = prefix

\* the condition read as (mentioned || in auto channel) && !bot && !"~"
Triggers_grouped(m) ==
    /\ (m.mentions \/ m.channel_id \in AutoChans)
    /\ ~m.author_bot
    /\ ~starts_with(m.content, <<"~">>)

\* main.rs lines 89-92: a || b && c && d, && binding tighter than ||
Triggers(m) ==
    \/ m.mentions
    \/ /\ m.channel_id \in AutoChans
       /\ ~m.author_bot
       /\ ~starts_with(m.content, <<"~">>)

\* main.rs lines 80-98 and oai.rs lines 246-254: the handler of an inbound
\* message; it calls process_message, which sends its placeholder, or returns
Message(r) ==
    /\ pc[r] = "idle"
    /\ \E m \in Inbound, ok \in BOOLEAN :
        /\ msg' = [msg EXCEPT ![r] = m]
        /\ IF ~Triggers(m)
           THEN /\ ok
                /\ sinks' = sinks
                /\ pc' = [pc EXCEPT ![r] = "ignored"]
           ELSE IF ok
           THEN /\ sinks' = OpenSink(r, "generating")
                /\ pc' = [pc EXCEPT ![r] = "append"]
           ELSE /\ sinks' = sinks
                /\ pc' = [pc EXCEPT ![r] = "panicked"]
    /\ UNCHANGED <<cfg, now, mutex, ai_context, wacks, wack_chan, messages,
                   sys_msg, final_messages, stream, delivered, response,
                   total_response, since_last_update, last_update,
                   stream_begin, flushes, edits>>

\* inbound messages handled, and the requests they start up to the append
TriggerInit == InitWith({Config(MaxBudget, LibCtx, "release")}, {EmptyMap})

TriggerNext ==
    \E r \in Reqs :
        \/ Message(r)
        \/ LockAppend(r)
        \/ AppendUser(r, {1})

TriggerSpec == TriggerInit /\ [][TriggerNext]_vars

\* the message was handled
Handled(r) == pc[r] # "idle"

\* process_message was called for the message
Started(r) == pc[r] \notin {"idle", "ignored"}

\* C26 (request trigger): a handled message started a request if and only if
\* it mentions the bot, or it is in an auto-respond channel, its author is
\* not a bot and its content does not begin with "~"; a message that
\* mentions the bot starts one whoever wrote it and whatever it begins with.
C26_Trigger ==
    \A r \in Reqs :
        Handled(r) =>
            /\ Started(r) <=>
                  \/ msg[r].mentions
                  \/ /\ msg[r].channel_id \in AutoChans
                     /\ ~msg[r].author_bot
                     /\ (msg[r].content = <<>> \/ Head(msg[r].content) # "~")
            /\ msg[r].mentions => Started(r)
            /\ ~msg[r].mentions /\ (msg[r].author_bot
                                    \/ msg[r].channel_id \notin AutoChans)
                 => ~Started(r)

\* C26 witness: a message written by a bot and beginning with "~" that
\* mentions the bot started a request, and one in an auto-respond channel
\* with the same author and content, not mentioning the bot, did not.
C26_Witness ==
    \E r \in Reqs, q \in Reqs :
        /\ pc[r] = "create_stream"
        /\ pc[q] = "ignored"
        /\ msg[r].mentions /\ msg[r].author_bot
        /\ starts_with(msg[r].content, <<"~">>)
        /\ msg[q] = [msg[r] EXCEPT !.mentions = FALSE, !.channel_id = "c1"]

====
